---- MODULE Spec2Model ----
(***************************************************************************)
(* A model of src/app.py: the request dispatch layer of the document       *)
(* search chatbot.                                                         *)
(*                                                                         *)
(*   send_chat_message  (Ask)      the retry loop around lambda.invoke     *)
(*   upload_file_to_s3  (Upload)   one storage write under a fresh key     *)
(*   main / display_chat_message   the normalisation of a dispatcher       *)
(*                                 payload into {answer, snippets}         *)
(*                                                                         *)
(* Python values are tagged records [t, v] (t in null, str, int, list,     *)
(* dict); a dict's v is a function from key strings to values.  Texts are  *)
(* TLA+ strings, searched and lower-cased character by character.  Wait    *)
(* times are kept in tenths of a second (1.5 s = 15).                      *)
(***************************************************************************)
EXTENDS Integers, Sequences, FiniteSets, TLC

VARIABLES
    lambda_client,  \* "None" | "client": the module-level lambda client
    s3_client,      \* "None" | "client": the module-level S3 client
    \* send_chat_message
    pc,             \* "idle" | "loop" | "returned" | "raised"
    max_retries,    \* the max_retries argument of the call in progress
    attempt,        \* the loop variable of `for attempt in range(max_retries)`
    trace,          \* the call's remote invocations and sleeps, in order
    result,         \* the value the call returned (or the exception it raised)
    \* the upload button and upload_file_to_s3
    bucket,         \* the keys written to S3_BUCKET
    calls,          \* the calls of upload_file_to_s3 so far, with what each ended in
    uploaded_files, \* st.session_state.uploaded_files
    upload_status,  \* st.session_state.upload_status
    \* the handling of a result by main and display_chat_message
    result_data,    \* result["data"] of a successful send_chat_message
    stage,          \* "off" | "result" | "stored" | "shown"
    ai_response,    \* the entry main appends to the chat history
    rendered,       \* what display_chat_message put on the page for it
    \* the Send and Clear Chat buttons
    chat_history,   \* st.session_state.chat_history
    branch          \* the branch of main that handled the last result

clientVars == <<lambda_client, s3_client>>
askVars == <<pc, max_retries, attempt, trace, result>>
uploadVars == <<bucket, calls, uploaded_files, upload_status>>
normVars == <<result_data, stage, ai_response, rendered>>
chatVars == <<chat_history, branch>>
vars == <<clientVars, askVars, uploadVars, normVars, chatVars>>

-----------------------------------------------------------------------------
(* Bounds of the model                                                     *)

MaxRetries == 3

MaxUploads == 2

RetryBudgets == (0 - 1)..MaxRetries

-----------------------------------------------------------------------------
(* Python values                                                           *)

PyNone == [t |-> "null", v |-> "None"]
PyStr(s) == [t |-> "str", v |-> s]
PyInt(n) == [t |-> "int", v |-> n]
PyList(q) == [t |-> "list", v |-> q]
PyDict(f) == [t |-> "dict", v |-> f]
EmptyDict == PyDict([k \in {} |-> PyNone])

IsStr(x) == x.t = "str"
IsDict(x) == x.t = "dict"

\* key in d, for a dict d
HasKey(d, k) == k \in DOMAIN d.v

\* d.get(k, default), for a dict d
DictGet(d, k, default) == IF HasKey(d, k) THEN d.v[k] ELSE default

-----------------------------------------------------------------------------
(* Text                                                                    *)

\* sub in s
Contains(s, sub) ==
    \E i \in 1..(Len(s) - Len(sub) + 1) : SubSeq(s, i, i + Len(sub) - 1) = sub

LowerChar(c) ==
    CASE c = "A" -> "a" [] c = "B" -> "b" [] c = "C" -> "c" [] c = "D" -> "d"
      [] c = "E" -> "e" [] c = "F" -> "f" [] c = "G" -> "g" [] c = "H" -> "h"
      [] c = "I" -> "i" [] c = "J" -> "j" [] c = "K" -> "k" [] c = "L" -> "l"
      [] c = "M" -> "m" [] c = "N" -> "n" [] c = "O" -> "o" [] c = "P" -> "p"
      [] c = "Q" -> "q" [] c = "R" -> "r" [] c = "S" -> "s" [] c = "T" -> "t"
      [] c = "U" -> "u" [] c = "V" -> "v" [] c = "W" -> "w" [] c = "X" -> "x"
      [] c = "Y" -> "y" [] c = "Z" -> "z" [] OTHER -> c

RECURSIVE Lower(_)
\* s.lower()
Lower(s) ==
    IF Len(s) = 0 THEN ""
    ELSE LowerChar(SubSeq(s, 1, 1)) \o Lower(SubSeq(s, 2, Len(s)))

-----------------------------------------------------------------------------
(* json.loads, on the texts the model uses.  Every other text is taken to  *)
(* raise json.JSONDecodeError, which is what json.loads does on the        *)
(* malformed texts below.                                                  *)

SnippetFull == PyDict([source |-> PyStr("manual.pdf"), text |-> PyStr("Gloves required.")])
SnippetNoSource == PyDict([text |-> PyStr("Gloves required.")])
SnippetNoText == PyDict([source |-> PyStr("manual.pdf")])

BodyFull == PyDict([response |-> PyStr("Wear gloves."), snippets |-> PyList(<<SnippetFull>>)])
BodyNoSnippets == PyDict([response |-> PyStr("Wear gloves.")])
BodyNoResponse == PyDict([snippets |-> PyList(<<>>)])
BodyNullResponse == PyDict([response |-> PyNone, snippets |-> PyList(<<>>)])

TextBodyFull == "{\"response\": \"Wear gloves.\", \"snippets\": [{\"source\": \"manual.pdf\", \"text\": \"Gloves required.\"}]}"
TextBodyNoSnippets == "{\"response\": \"Wear gloves.\"}"
TextBodyNoResponse == "{\"snippets\": []}"
TextBodyNullResponse == "{\"response\": null, \"snippets\": []}"
TextBodyIndented == "  {\"response\": \"Wear gloves.\"}"
TextMalformed == "{\"response\": \"Wear gl"
TextMalformedIndented == " {oops"
TextPlain == "Wear gloves."
TextNumber == "42"
TextNull == "null"
TextQuoted == "\"Wear gloves.\""
TextArray == "[1,2]"
TextEmpty == ""

Resp(status, body) == PyDict([statusCode |-> PyInt(status), body |-> body])

PayloadOkFull == "{\"statusCode\": 200, \"body\": {\"response\": \"Wear gloves.\", \"snippets\": [{\"source\": \"manual.pdf\", \"text\": \"Gloves required.\"}]}}"
PayloadOkNoResponse == "{\"statusCode\": 200, \"body\": {\"snippets\": []}}"
PayloadOkJsonText == "{\"statusCode\": 200, \"body\": \"{\\\"response\\\": \\\"Wear gloves.\\\"}\"}"
PayloadOkPlain == "{\"statusCode\": 200, \"body\": \"Wear gloves.\"}"
PayloadOkNull == "{\"statusCode\": 200, \"body\": null}"
PayloadOkNoBody == "{\"statusCode\": 200}"
PayloadErrTimeout == "{\"statusCode\": 504, \"body\": {\"error\": \"Request Timeout\"}}"
PayloadErrTemporary == "{\"statusCode\": 503, \"body\": {\"error\": \"temporary failure\"}}"
PayloadErrInvalid == "{\"statusCode\": 400, \"body\": {\"error\": \"Invalid query\"}}"
PayloadErrNoError == "{\"statusCode\": 500, \"body\": {}}"
PayloadErrTextBody == "{\"statusCode\": 500, \"body\": \"Internal error\"}"
PayloadErrNullError == "{\"statusCode\": 500, \"body\": {\"error\": null}}"
PayloadNoStatus == "{\"errorMessage\": \"Task timed out after 3.00 seconds\"}"
PayloadList == "[]"
PayloadNotJson == "<html>Bad Gateway</html>"

Decoded(x) == [ok |-> TRUE, value |-> x]
JSONDecodeError == [ok |-> FALSE, value |-> PyNone]

json_loads(s) ==
    CASE s = TextBodyFull -> Decoded(BodyFull)
      [] s = TextBodyNoSnippets -> Decoded(BodyNoSnippets)
      [] s = TextBodyNoResponse -> Decoded(BodyNoResponse)
      [] s = TextBodyNullResponse -> Decoded(BodyNullResponse)
      [] s = TextBodyIndented -> Decoded(BodyNoSnippets)
      [] s = TextNumber -> Decoded(PyInt(42))
      [] s = TextNull -> Decoded(PyNone)
      [] s = TextQuoted -> Decoded(PyStr("Wear gloves."))
      [] s = TextArray -> Decoded(PyList(<<PyInt(1), PyInt(2)>>))
      [] s = PayloadOkFull -> Decoded(Resp(200, BodyFull))
      [] s = PayloadOkNoResponse -> Decoded(Resp(200, BodyNoResponse))
      [] s = PayloadOkJsonText -> Decoded(Resp(200, PyStr(TextBodyNoSnippets)))
      [] s = PayloadOkPlain -> Decoded(Resp(200, PyStr(TextPlain)))
      [] s = PayloadOkNull -> Decoded(Resp(200, PyNone))
      [] s = PayloadOkNoBody -> Decoded(PyDict([statusCode |-> PyInt(200)]))
      [] s = PayloadErrTimeout -> Decoded(Resp(504, PyDict([error |-> PyStr("Request Timeout")])))
      [] s = PayloadErrTemporary -> Decoded(Resp(503, PyDict([error |-> PyStr("temporary failure")])))
      [] s = PayloadErrInvalid -> Decoded(Resp(400, PyDict([error |-> PyStr("Invalid query")])))
      [] s = PayloadErrNoError -> Decoded(Resp(500, EmptyDict))
      [] s = PayloadErrTextBody -> Decoded(Resp(500, PyStr("Internal error")))
      [] s = PayloadErrNullError -> Decoded(Resp(500, PyDict([error |-> PyNone])))
      [] s = PayloadNoStatus -> Decoded(PyDict([errorMessage |-> PyStr("Task timed out after 3.00 seconds")]))
      [] s = PayloadList -> Decoded(PyList(<<>>))
      [] OTHER -> JSONDecodeError

-----------------------------------------------------------------------------
(* send_chat_message: one pass of the retry loop                           *)

NotConnectedText == "I'm not connected to AWS services right now. Please check your AWS credentials and region settings."
InvalidCredentialsText == "Invalid AWS credentials. Please check your AWS access key and secret key."
AccessDeniedText == "Access denied. Please check your AWS IAM permissions."
InvalidFormatText == "Received invalid response format. Please try again."
ExhaustedText == "Request failed after multiple attempts. Please try again later."

\* {"response": text, "snippets": []}
Apology(text) == PyDict([response |-> PyStr(text), snippets |-> PyList(<<>>)])

\* {"success": True, "data": data}
Success(data) == [success |-> TRUE, data |-> data]

\* what one pass of the loop body ends in
Return(data) == [k |-> "return", data |-> data]
Continue(wait) == [k |-> "continue", wait |-> wait]
Raise(cls, text) == [k |-> "raise", exc |-> [cls |-> cls, text |-> text]]

\* the classes of exception the model raises; all derive from Exception
ExceptionClasses ==
    {"ClientError", "JSONDecodeError", "KeyError", "AttributeError", "TypeError",
     "EndpointConnectionError", "ReadTimeoutError"}

\* IsRetryable without .lower()
IsRetryableCaseSensitive(text) ==
    \E retryable \in {"timeout", "throttle", "temporary"} : Contains(text, retryable)

\* any(retryable in text.lower() for retryable in ['timeout', 'throttle', 'temporary'])
IsRetryable(text) ==
    \E retryable \in {"timeout", "throttle", "temporary"} :
        Contains(Lower(text), retryable)

\* a wait that grows by two seconds per attempt
wait_time_linear(a) == 10 * (2 * a) + 5

\* (2 ** attempt) + 0.5 seconds, in tenths of a second
wait_time(a) == 10 * (2 ^ a) + 5

\* type(x).__name__
TypeName(x) == IF x.t = "null" THEN "NoneType" ELSE x.t

\* str(AttributeError) for x.name
NoAttribute(x, name) ==
    "'" \o TypeName(x) \o "' object has no attribute '" \o name \o "'"

\* ErrorResponse that leaves the loop on the last retryable error, so that
\* the exhaustion apology after the loop is what the caller gets
ErrorResponseFallingThrough(rb, a, m) ==
    IF ~IsDict(rb)
    THEN Raise("AttributeError", NoAttribute(rb, "get"))
    ELSE LET body == DictGet(rb, "body", EmptyDict) IN
         IF ~IsDict(body)
         THEN Raise("AttributeError", NoAttribute(body, "get"))
         ELSE LET error_msg == DictGet(body, "error", PyStr("Unknown error")) IN
              IF ~IsStr(error_msg)
              THEN Raise("AttributeError", NoAttribute(error_msg, "lower"))
              ELSE IF IsRetryable(error_msg.v)
                   THEN IF a < m - 1
                        THEN Continue(wait_time(a))
                        ELSE Return(Apology(ExhaustedText))
                   ELSE Return(Apology("I encountered an error: " \o error_msg.v
                                \o ". Please try again or rephrase your question."))

\* ErrorResponse that tests attempt < max_retries
ErrorResponseOffByOne(rb, a, m) ==
    IF ~IsDict(rb)
    THEN Raise("AttributeError", NoAttribute(rb, "get"))
    ELSE LET body == DictGet(rb, "body", EmptyDict) IN
         IF ~IsDict(body)
         THEN Raise("AttributeError", NoAttribute(body, "get"))
         ELSE LET error_msg == DictGet(body, "error", PyStr("Unknown error")) IN
              IF ~IsStr(error_msg)
              THEN Raise("AttributeError", NoAttribute(error_msg, "lower"))
              ELSE IF IsRetryable(error_msg.v) /\ a < m
                   THEN Continue(wait_time(a))
                   ELSE Return(Apology("I encountered an error: " \o error_msg.v
                                \o ". Please try again or rephrase your question."))

\* lines 270-285: the response is not a 200; rb is the decoded payload
ErrorResponse(rb, a, m) ==
    IF ~IsDict(rb)
    THEN Raise("AttributeError", NoAttribute(rb, "get"))
    ELSE LET body == DictGet(rb, "body", EmptyDict) IN
         IF ~IsDict(body)
         THEN Raise("AttributeError", NoAttribute(body, "get"))
         ELSE LET error_msg == DictGet(body, "error", PyStr("Unknown error")) IN
              IF ~IsStr(error_msg)
              THEN Raise("AttributeError", NoAttribute(error_msg, "lower"))
              ELSE IF IsRetryable(error_msg.v) /\ a < m - 1
                   THEN Continue(wait_time(a))
                   ELSE Return(Apology("I encountered an error: " \o error_msg.v
                                \o ". Please try again or rephrase your question."))

\* Response that returns the whole decoded payload of a 200
ResponseReturningPayload(rb, a, m) ==
    IF IsDict(rb) /\ HasKey(rb, "statusCode") /\ rb.v["statusCode"] = PyInt(200)
    THEN Return(rb)
    ELSE ErrorResponse(rb, a, m)

\* Response that reads the body of a 200 with .get('body')
ResponseWithGet(rb, a, m) ==
    IF IsDict(rb) /\ HasKey(rb, "statusCode") /\ rb.v["statusCode"] = PyInt(200)
    THEN Return(DictGet(rb, "body", PyNone))
    ELSE ErrorResponse(rb, a, m)

\* lines 267-268: 'statusCode' in response_body and response_body['statusCode'] == 200
Response(rb, a, m) ==
    CASE IsDict(rb) ->
            IF HasKey(rb, "statusCode") /\ rb.v["statusCode"] = PyInt(200)
            THEN IF HasKey(rb, "body")
                 THEN Return(rb.v["body"])
                 ELSE Raise("KeyError", "'body'")
            ELSE ErrorResponse(rb, a, m)
      [] rb.t = "list" ->
            IF \E i \in DOMAIN rb.v : rb.v[i] = PyStr("statusCode")
            THEN Raise("TypeError", "list indices must be integers or slices, not str")
            ELSE ErrorResponse(rb, a, m)
      [] rb.t = "str" ->
            IF Contains(rb.v, "statusCode")
            THEN Raise("TypeError", "string indices must be integers")
            ELSE ErrorResponse(rb, a, m)
      [] OTHER ->
            Raise("TypeError", "argument of type '" \o TypeName(rb) \o "' is not iterable")

\* lines 259-285: the body of the try; o is what lambda_client.invoke does
TryBody(o, a, m) ==
    IF o.kind = "raise"
    THEN [k |-> "raise", exc |-> o.exc]
    ELSE LET d == json_loads(o.text) IN
         IF ~d.ok
         THEN Raise("JSONDecodeError", "Expecting value")
         ELSE Response(d.value, a, m)

\* OnClientError that never retries
OnClientErrorWithoutRetry(error_message, a, m) ==
    IF Contains(error_message, "UnrecognizedClientException")
    THEN Return(Apology(InvalidCredentialsText))
    ELSE IF Contains(error_message, "AccessDeniedException")
    THEN Return(Apology(AccessDeniedText))
    ELSE Return(Apology("AWS service error: " \o error_message))

\* OnClientError that tests the retryable words before the credential markers
OnClientErrorRetryFirst(error_message, a, m) ==
    IF IsRetryable(error_message) /\ a < m - 1
    THEN Continue(wait_time(a))
    ELSE IF Contains(error_message, "UnrecognizedClientException")
    THEN Return(Apology(InvalidCredentialsText))
    ELSE IF Contains(error_message, "AccessDeniedException")
    THEN Return(Apology(AccessDeniedText))
    ELSE Return(Apology("AWS service error: " \o error_message))

\* OnClientError that retries whatever the text says
OnClientErrorRetryingAll(error_message, a, m) ==
    IF Contains(error_message, "UnrecognizedClientException")
    THEN Return(Apology(InvalidCredentialsText))
    ELSE IF Contains(error_message, "AccessDeniedException")
    THEN Return(Apology(AccessDeniedText))
    ELSE IF a < m - 1
    THEN Continue(wait_time(a))
    ELSE Return(Apology("AWS service error: " \o error_message))

\* OnClientError that tests attempt < max_retries
OnClientErrorOffByOne(error_message, a, m) ==
    IF Contains(error_message, "UnrecognizedClientException")
    THEN Return(Apology(InvalidCredentialsText))
    ELSE IF Contains(error_message, "AccessDeniedException")
    THEN Return(Apology(AccessDeniedText))
    ELSE IF IsRetryable(error_message) /\ a < m
    THEN Continue(wait_time(a))
    ELSE Return(Apology("AWS service error: " \o error_message))

\* OnClientError that looks for AccessDeniedException first
OnClientErrorAccessDeniedFirst(error_message, a, m) ==
    IF Contains(error_message, "AccessDeniedException")
    THEN Return(Apology(AccessDeniedText))
    ELSE IF Contains(error_message, "UnrecognizedClientException")
    THEN Return(Apology(InvalidCredentialsText))
    ELSE IF IsRetryable(error_message) /\ a < m - 1
    THEN Continue(wait_time(a))
    ELSE Return(Apology("AWS service error: " \o error_message))

\* lines 287-319: except ClientError as e
OnClientError(error_message, a, m) ==
    IF Contains(error_message, "UnrecognizedClientException")
    THEN Return(Apology(InvalidCredentialsText))
    ELSE IF Contains(error_message, "AccessDeniedException")
    THEN Return(Apology(AccessDeniedText))
    ELSE IF IsRetryable(error_message) /\ a < m - 1
    THEN Continue(wait_time(a))
    ELSE Return(Apology("AWS service error: " \o error_message))

\* lines 321-328: except json.JSONDecodeError
OnJSONDecodeError == Return(Apology(InvalidFormatText))

\* OnException that tests attempt < max_retries
OnExceptionOffByOne(text, a, m) ==
    IF a < m
    THEN Continue(wait_time(a))
    ELSE Return(Apology("An unexpected error occurred: " \o text))

\* lines 330-342: except Exception as e
OnException(text, a, m) ==
    IF a < m - 1
    THEN Continue(wait_time(a))
    ELSE Return(Apology("An unexpected error occurred: " \o text))

\* Handle without the final `except Exception` clause
HandleWithoutCatchAll(exc, a, m) ==
    CASE exc.cls = "ClientError" -> OnClientError(exc.text, a, m)
      [] exc.cls = "JSONDecodeError" -> OnJSONDecodeError
      [] OTHER -> [k |-> "raise", exc |-> exc]

\* Handle without the `except json.JSONDecodeError` clause
HandleWithoutJSONDecodeError(exc, a, m) ==
    CASE exc.cls = "ClientError" -> OnClientError(exc.text, a, m)
      [] exc.cls \in ExceptionClasses -> OnException(exc.text, a, m)
      [] OTHER -> [k |-> "raise", exc |-> exc]

\* the except clauses, in the order the code lists them
Handle(exc, a, m) ==
    CASE exc.cls = "ClientError" -> OnClientError(exc.text, a, m)
      [] exc.cls = "JSONDecodeError" -> OnJSONDecodeError
      [] exc.cls \in ExceptionClasses -> OnException(exc.text, a, m)
      [] OTHER -> [k |-> "raise", exc |-> exc]

\* lines 258-342: one pass of the loop
Iteration(o, a, m) ==
    LET r == TryBody(o, a, m) IN
    IF r.k = "raise" THEN Handle(r.exc, a, m) ELSE r

-----------------------------------------------------------------------------
(* What lambda_client.invoke can do on one attempt                         *)

Payload(text) == [kind |-> "payload", text |-> text]
Raised(cls, text) == [kind |-> "raise", exc |-> [cls |-> cls, text |-> text]]

PayloadTexts ==
    {PayloadOkFull, PayloadOkNoResponse, PayloadOkJsonText, PayloadOkPlain,
     PayloadOkNull, PayloadOkNoBody, PayloadErrTimeout, PayloadErrTemporary,
     PayloadErrInvalid, PayloadErrNoError, PayloadErrTextBody,
     PayloadErrNullError, PayloadNoStatus, PayloadList, TextNumber,
     PayloadNotJson}

CEUnrecognized == "An error occurred (UnrecognizedClientException): The security token is invalid."
CEAccessDenied == "An error occurred (AccessDeniedException): User is not authorized"
CEAccessDeniedTemporary == "An error occurred (AccessDeniedException): temporary credentials rejected"
CEBothMarkers == "An error occurred (UnrecognizedClientException): AccessDeniedException after timeout"
CETimeout == "An error occurred (RequestTimeout): Read Timeout"
CEThrottled == "An error occurred (ServiceException): Temporary failure, request Throttled"
CEThrottling == "An error occurred (ThrottlingException): Rate exceeded"
CENotFound == "An error occurred (ResourceNotFoundException): Function not found"

ClientErrorTexts ==
    {CEUnrecognized, CEAccessDenied, CEAccessDeniedTemporary, CEBothMarkers,
     CETimeout, CEThrottled, CEThrottling, CENotFound}

Outcomes ==
    {Payload(t) : t \in PayloadTexts}
    \cup {Raised("ClientError", t) : t \in ClientErrorTexts}
    \cup {Raised("EndpointConnectionError", "Could not connect to the endpoint URL"),
          Raised("ReadTimeoutError", "Read timeout on endpoint URL")}

-----------------------------------------------------------------------------
(* send_chat_message as a state machine                                    *)

NoResult == [none |-> TRUE]

Invoked(o) == [ev |-> "invoke", outcome |-> o]
Slept(w) == [ev |-> "sleep", wait |-> w]

\* lines 134-174: both clients are created, or both are None
ClientsInit ==
    /\ lambda_client \in {"None", "client"}
    /\ s3_client = lambda_client

AskIdle ==
    /\ pc = "idle"
    /\ max_retries = 0
    /\ attempt = 0
    /\ trace = <<>>
    /\ result = NoResult

\* lines 176-184: initialize_session_state
UploadIdle ==
    /\ bucket = {}
    /\ calls = <<>>
    /\ uploaded_files = <<>>
    /\ upload_status = <<>>

NormIdle ==
    /\ result_data = PyNone
    /\ stage = "off"
    /\ ai_response = NoResult
    /\ rendered = NoResult

\* lines 179-180: the chat history starts empty
ChatIdle ==
    /\ chat_history = <<>>
    /\ branch = "none"

Init == ClientsInit /\ AskIdle /\ UploadIdle /\ NormIdle /\ ChatIdle

\* Call without the check of lambda_client
CallWithoutClientCheck(m) ==
    /\ pc = "idle"
    /\ max_retries' = m
    /\ attempt' = 0
    /\ trace' = <<>>
    /\ pc' = "loop"
    /\ result' = NoResult
    /\ UNCHANGED <<clientVars, uploadVars, normVars, chatVars>>

\* lines 237-255: the call and the check of lambda_client
Call(m) ==
    /\ pc = "idle"
    /\ max_retries' = m
    /\ attempt' = 0
    /\ trace' = <<>>
    /\ IF lambda_client = "None"
       THEN /\ pc' = "returned"
            /\ result' = Success(Apology(NotConnectedText))
       ELSE /\ pc' = "loop"
            /\ result' = NoResult
    /\ UNCHANGED <<clientVars, uploadVars, normVars, chatVars>>

\* lines 257-342: one pass of `for attempt in range(max_retries)`
Attempt(o) ==
    /\ pc = "loop"
    /\ attempt < max_retries
    /\ LET r == Iteration(o, attempt, max_retries) IN
       CASE r.k = "continue" ->
                /\ trace' = trace \o <<Invoked(o), Slept(r.wait)>>
                /\ attempt' = attempt + 1
                /\ pc' = "loop"
                /\ result' = NoResult
         [] r.k = "return" ->
                /\ trace' = Append(trace, Invoked(o))
                /\ attempt' = attempt
                /\ pc' = "returned"
                /\ result' = Success(r.data)
         [] OTHER ->
                /\ trace' = Append(trace, Invoked(o))
                /\ attempt' = attempt
                /\ pc' = "raised"
                /\ result' = [exception |-> r.exc]
    /\ UNCHANGED <<clientVars, max_retries, uploadVars, normVars, chatVars>>

\* lines 344-350: range(max_retries) is used up
Exhausted ==
    /\ pc = "loop"
    /\ attempt >= max_retries
    /\ pc' = "returned"
    /\ result' = Success(Apology(ExhaustedText))
    /\ UNCHANGED <<clientVars, max_retries, attempt, trace, uploadVars, normVars, chatVars>>

\* the caller has the result; the next call starts afresh
Done ==
    /\ pc \in {"returned", "raised"}
    /\ pc' = "idle"
    /\ max_retries' = 0
    /\ attempt' = 0
    /\ trace' = <<>>
    /\ result' = NoResult
    /\ UNCHANGED <<clientVars, uploadVars, normVars, chatVars>>

Next ==
    \/ \E m \in RetryBudgets : Call(m)
    \/ \E o \in Outcomes : Attempt(o)
    \/ Exhausted
    \/ Done

Spec == Init /\ [][Next]_vars

\* the loop and the return are not interruptible: a started call keeps running
FairSpec == Spec /\ WF_vars(\E o \in Outcomes : Attempt(o)) /\ WF_vars(Exhausted)

-----------------------------------------------------------------------------
(* upload_file_to_s3 and the upload button                                 *)

S3_BUCKET == "cacheme-documents"

S3NotInitializedText == "S3 client not initialized. Please check your AWS credentials."
S3AccessDeniedText == "Access denied to S3. Please check your AWS credentials and permissions."

\* str(uuid.uuid4()): 36 characters, hexadecimal digits and dashes
Uuids ==
    {"1b4e28ba-2fa1-41d2-883f-0016d3cca427",
     "6fa459ea-ee8a-4ca4-894e-db77e160355e",
     "16fd2706-8baf-433b-82eb-8c7fada847da"}

Filenames == {"policy.pdf", "6fa459ea-ee8a-4ca4-894e-db77e160355e_policy.pdf"}

S3AccessDenied == "An error occurred (AccessDenied) when calling the PutObject operation: Access Denied"
S3NoSuchBucket == "An error occurred (NoSuchBucket) when calling the PutObject operation: The specified bucket does not exist"
S3DeniedNoSuchBucket == "An error occurred (AccessDenied) when calling the PutObject operation: NoSuchBucket check denied"
S3SlowDown == "An error occurred (SlowDown) when calling the PutObject operation: Please reduce your request rate."

\* what s3_client.upload_fileobj can do
Writes ==
    {[kind |-> "ok"]}
    \cup {Raised("ClientError", t) :
            t \in {S3AccessDenied, S3NoSuchBucket, S3DeniedNoSuchBucket, S3SlowDown}}
    \cup {Raised("EndpointConnectionError", "Could not connect to the endpoint URL")}

\* an s3_key without the uuid
S3KeyWithoutUuid(u, filename) == "uploads/" \o filename

\* line 201: f"uploads/{uuid.uuid4()}_{filename}"
S3Key(u, filename) == "uploads/" \o u \o "_" \o filename

Failure(text) == [k |-> "return", value |-> [success |-> FALSE, error |-> text]]

\* OnUploadClientError that looks for NoSuchBucket first
OnUploadClientErrorBucketFirst(error_msg) ==
    IF Contains(error_msg, "NoSuchBucket")
    THEN Failure("S3 bucket '" \o S3_BUCKET \o "' not found. Please check your configuration.")
    ELSE IF Contains(error_msg, "AccessDenied")
    THEN Failure(S3AccessDeniedText)
    ELSE Failure("S3 upload failed: " \o error_msg)

\* lines 228-235: except ClientError as e
OnUploadClientError(error_msg) ==
    IF Contains(error_msg, "AccessDenied")
    THEN Failure(S3AccessDeniedText)
    ELSE IF Contains(error_msg, "NoSuchBucket")
    THEN Failure("S3 bucket '" \o S3_BUCKET \o "' not found. Please check your configuration.")
    ELSE Failure("S3 upload failed: " \o error_msg)

\* lines 186-235: upload_file_to_s3(file_content, filename), where u is the
\* uuid drawn at line 201 and w is what upload_fileobj does
upload_file_to_s3(filename, u, w) ==
    IF s3_client = "None"
    THEN Failure(S3NotInitializedText)
    ELSE IF w.kind = "ok"
    THEN [k |-> "return",
          value |-> [success |-> TRUE,
                     data |-> [s3_key |-> S3Key(u, filename),
                               bucket |-> S3_BUCKET,
                               filename |-> filename]]]
    ELSE IF w.exc.cls = "ClientError"
    THEN OnUploadClientError(w.exc.text)
    ELSE [k |-> "raise", exc |-> w.exc]

\* a second upload_fileobj after a failed one
upload_fileobj_calls_retrying(w) ==
    IF s3_client = "None" THEN 0 ELSE IF w.kind = "ok" THEN 1 ELSE 2

\* lines 197-215: the calls of s3_client.upload_fileobj one upload_file_to_s3
\* makes: none after the early return, else the one at line 204, in no loop
upload_fileobj_calls(w) == IF s3_client = "None" THEN 0 ELSE 1

\* lines 430-471: the upload button of main
UploadClick(filename, u, w) ==
    /\ Len(calls) < MaxUploads
    /\ LET r == upload_file_to_s3(filename, u, w) IN
       /\ calls' = Append(calls, [filename |-> filename, uuid |-> u,
                                  wrote |-> s3_client = "client", write |-> w,
                                  writes |-> upload_fileobj_calls(w),
                                  outcome |-> r])
       /\ bucket' = IF s3_client = "client" /\ w.kind = "ok"
                    THEN bucket \cup {S3Key(u, filename)}
                    ELSE bucket
       /\ IF r.k = "raise"
          THEN UNCHANGED <<uploaded_files, upload_status>>
          ELSE IF r.value.success
          THEN /\ uploaded_files' =
                     Append(uploaded_files,
                            [name |-> filename, status |-> "processing",
                             s3_key |-> r.value.data.s3_key])
               /\ upload_status' = [n \in DOMAIN upload_status \cup {filename} |->
                                      IF n = filename THEN "success" ELSE upload_status[n]]
          ELSE /\ uploaded_files' = uploaded_files
               /\ upload_status' = [n \in DOMAIN upload_status \cup {filename} |->
                                      IF n = filename THEN "error" ELSE upload_status[n]]
    /\ UNCHANGED <<clientVars, askVars, normVars, chatVars>>

UploadNext == \E filename \in Filenames, u \in Uuids, w \in Writes : UploadClick(filename, u, w)

UploadSpec == Init /\ [][UploadNext]_vars

-----------------------------------------------------------------------------
(* main's handling of a successful result, and display_chat_message        *)

NoResponseText == "No response received"
UnknownDocumentText == "Unknown document"

IsSpace(c) == c \in {" ", "\t", "\n", "\r"}

RECURSIVE LStrip(_)
\* s.strip(), as far as the start of the text goes
LStrip(s) ==
    IF Len(s) > 0 /\ IsSpace(SubSeq(s, 1, 1)) THEN LStrip(SubSeq(s, 2, Len(s))) ELSE s

\* s.startswith(prefix)
StartsWith(s, prefix) == Len(s) >= Len(prefix) /\ SubSeq(s, 1, Len(prefix)) = prefix

RECURSIVE NatStr(_)
\* str(n), n >= 0
NatStr(n) ==
    IF n < 10 THEN SubSeq("0123456789", n + 1, n + 1)
    ELSE NatStr(n \div 10) \o SubSeq("0123456789", (n % 10) + 1, (n % 10) + 1)

RECURSIVE py_repr(_)
\* repr(x), for None, numbers, plain texts and lists of them
py_repr(x) ==
    CASE x.t = "null" -> "None"
      [] x.t = "int" -> IF x.v < 0 THEN "-" \o NatStr(0 - x.v) ELSE NatStr(x.v)
      [] x.t = "str" -> "'" \o x.v \o "'"
      [] x.t = "list" ->
            LET items == [i \in DOMAIN x.v |-> py_repr(x.v[i])]
                Join[i \in 0..Len(items)] ==
                    IF i = 0 THEN ""
                    ELSE IF i = 1 THEN items[1]
                    ELSE Join[i - 1] \o ", " \o items[i]
            IN "[" \o Join[Len(items)] \o "]"
      [] x.t = "dict" /\ DOMAIN x.v = {} -> "{}"

\* str(x), and x inside an f-string
py_str(x) == IF IsStr(x) THEN x.v ELSE py_repr(x)

\* bool(x)
Truthy(x) ==
    CASE x.t = "null" -> FALSE
      [] x.t = "int" -> x.v # 0
      [] x.t = "str" -> x.v # ""
      [] x.t = "list" -> Len(x.v) > 0
      [] x.t = "dict" -> DOMAIN x.v # {}

InvalidFormatApology ==
    PyDict([response |-> PyStr("I received an invalid response format. Please try asking your question again."),
            snippets |-> PyList(<<>>)])

\* response_data without the inner `except json.JSONDecodeError`: the
\* failure reaches the handler at line 646
response_data_without_inner_except(d) ==
    LET parsed ==
            IF IsStr(d)
            THEN LET j == json_loads(d.v) IN
                 IF j.ok THEN j.value ELSE InvalidFormatApology
            ELSE d
    IN IF IsDict(parsed)
       THEN parsed
       ELSE PyDict([response |-> PyStr(py_str(parsed)), snippets |-> PyList(<<>>)])

\* lines 619-630: response_data, from result["data"]
response_data(d) ==
    LET parsed ==
            IF IsStr(d)
            THEN LET j == json_loads(d.v) IN
                 IF j.ok
                 THEN j.value
                 ELSE PyDict([response |-> d, snippets |-> PyList(<<>>)])
            ELSE d
    IN IF IsDict(parsed)
       THEN parsed
       ELSE PyDict([response |-> PyStr(py_str(parsed)), snippets |-> PyList(<<>>)])

\* what the page shows for one AI message
Shown(answer, snippets, error) == [answer |-> answer, snippets |-> snippets, error |-> error]

\* lines 386-391: one snippet
RenderSnippet(snippet) ==
    [source |-> py_str(DictGet(snippet, "source", PyStr(UnknownDocumentText))),
     text |-> py_str(DictGet(snippet, "text", PyStr("")))]

\* lines 375-391: the answer, then the snippets one by one; an exception ends
\* the rendering at the handler of line 399
Render(rd) ==
    LET answer == py_str(DictGet(rd, "response", PyStr(NoResponseText)))
        snippets == DictGet(rd, "snippets", PyList(<<>>))
    IN  IF ~Truthy(snippets)
        THEN Shown(answer, <<>>, "")
        ELSE CASE snippets.t = "list" ->
                    LET bad == {i \in DOMAIN snippets.v : ~IsDict(snippets.v[i])}
                        n == IF bad = {}
                             THEN Len(snippets.v)
                             ELSE (CHOOSE i \in bad : \A j \in bad : i <= j) - 1
                    IN Shown(answer,
                             [i \in 1..n |-> RenderSnippet(snippets.v[i])],
                             IF bad = {} THEN ""
                             ELSE "Error displaying message: "
                                  \o NoAttribute(snippets.v[n + 1], "get"))
               [] snippets.t \in {"str", "dict"} ->
                    Shown(answer, <<>>,
                          "Error displaying message: " \o NoAttribute(PyStr(""), "get"))
               [] OTHER ->
                    Shown(answer, <<>>,
                          "Error displaying message: '" \o TypeName(snippets)
                          \o "' object is not iterable")

\* lines 368-398: display_chat_message(message, is_user=False)
display_chat_message(message) ==
    LET content == message.content IN
    IF IsStr(content) /\ StartsWith(LStrip(content.v), "{")
    THEN LET j == json_loads(content.v) IN
         IF j.ok THEN Render(j.value) ELSE Shown(content.v, <<>>, "")
    ELSE Render(IF IsDict(content) THEN content ELSE PyDict([response |-> content]))

\* what result["data"] can be: any decoded body, or an apology
Absent == [has |-> FALSE, val |-> PyNone]
Present(x) == [has |-> TRUE, val |-> x]

ResponseFields == {Absent, Present(PyNone), Present(PyStr("Wear gloves.")), Present(PyInt(42))}

SnippetsFields ==
    {Absent, Present(PyNone), Present(PyInt(5)), Present(PyStr("manual.pdf"))}
    \cup {Present(PyList(q)) :
            q \in {<<>>, <<SnippetFull>>, <<SnippetNoSource>>, <<SnippetNoText>>,
                   <<SnippetFull, EmptyDict>>, <<PyStr("manual.pdf")>>,
                   <<SnippetFull, PyStr("manual.pdf")>>}}

Body(r, sn) ==
    PyDict([k \in (IF r.has THEN {"response"} ELSE {}) \cup (IF sn.has THEN {"snippets"} ELSE {})
              |-> IF k = "response" THEN r.val ELSE sn.val])

ResultTexts ==
    {TextBodyFull, TextBodyNoSnippets, TextBodyNoResponse, TextBodyNullResponse,
     TextBodyIndented, TextMalformed, TextMalformedIndented, TextPlain,
     TextNumber, TextNull, TextQuoted, TextArray, TextEmpty}

ResultData ==
    {PyStr(t) : t \in ResultTexts}
    \cup {Body(r, sn) : r \in ResponseFields, sn \in SnippetsFields}
    \cup {PyNone, PyInt(42), PyList(<<>>), PyList(<<PyInt(1), PyInt(2)>>)}

NormInit ==
    /\ ClientsInit /\ AskIdle /\ UploadIdle /\ ChatIdle
    /\ result_data \in ResultData
    /\ stage = "result"
    /\ ai_response = NoResult
    /\ rendered = NoResult

\* lines 616-645: the result is stored in the chat history
Store ==
    /\ stage = "result"
    /\ LET rd == response_data(result_data) IN
       ai_response' = [content |-> rd, type |-> "ai",
                       snippets |-> DictGet(rd, "snippets", PyList(<<>>))]
    /\ stage' = "stored"
    /\ UNCHANGED <<clientVars, askVars, uploadVars, result_data, rendered, chatVars>>

\* lines 681-682: the stored message is displayed
Display ==
    /\ stage = "stored"
    /\ rendered' = display_chat_message(ai_response)
    /\ stage' = "shown"
    /\ UNCHANGED <<clientVars, askVars, uploadVars, result_data, ai_response, chatVars>>

NormNext == Store \/ Display

NormSpec == NormInit /\ [][NormNext]_vars

-----------------------------------------------------------------------------
(* The Send and Clear Chat buttons of main                                 *)

MaxSends == 3

\* line 237: max_retries: int = 3
DefaultMaxRetries == 3

UserInputs == {"What is the safety policy?", "   "}

\* what invoke does on the attempts of the call a Send makes
ChatOutcomes ==
    {Payload(PayloadOkFull), Payload(PayloadOkPlain), Payload(PayloadOkNull),
     Payload(PayloadErrTimeout), Payload(PayloadNotJson),
     Raised("ClientError", CEUnrecognized)}

RECURSIVE Loop(_, _, _)
\* lines 257-350: the for loop from attempt a on and the return after it;
\* os[a + 1] is what invoke does on attempt a
Loop(os, a, m) ==
    IF a >= m
    THEN [k |-> "return", value |-> Success(Apology(ExhaustedText))]
    ELSE LET r == Iteration(os[a + 1], a, m) IN
         CASE r.k = "continue" -> Loop(os, a + 1, m)
           [] r.k = "return" -> [k |-> "return", value |-> Success(r.data)]
           [] OTHER -> r

\* send_chat_message that reports a missing client as a failure
send_chat_message_failing(os, m) ==
    IF lambda_client = "None"
    THEN [k |-> "return", value |-> [success |-> FALSE, error |-> NotConnectedText]]
    ELSE Loop(os, 0, m)

\* lines 237-350: send_chat_message(message, max_retries), run to its end
send_chat_message(os, m) ==
    IF lambda_client = "None"
    THEN [k |-> "return", value |-> Success(Apology(NotConnectedText))]
    ELSE Loop(os, 0, m)

\* lines 603-607: the entry for the user's input (timestamp left out)
UserMessage(user_input) == [content |-> PyStr(user_input), type |-> "user"]

\* lines 616-644: the entry for a result with success true (timestamp left out)
AiResponse(d) ==
    LET rd == response_data(d) IN
    [content |-> rd, type |-> "ai", snippets |-> DictGet(rd, "snippets", PyList(<<>>))]

\* lines 657-666: the entry for a result with success false
ErrorResponseEntry(res) ==
    [content |-> Apology("Sorry, I encountered an error: "
                         \o (IF "error" \in DOMAIN res THEN res.error ELSE "Unknown error")),
     type |-> "ai"]

\* lines 600-669: the Send button; os is what invoke does attempt by attempt
Send(user_input, os) ==
    /\ Len(chat_history) < 2 * MaxSends
    /\ IF LStrip(user_input) = ""
       THEN UNCHANGED chatVars
       ELSE LET r == send_chat_message(os, DefaultMaxRetries) IN
            IF r.k = "raise"
            THEN /\ chat_history' = Append(chat_history, UserMessage(user_input))
                 /\ branch' = "raised"
            ELSE IF r.value.success
            THEN /\ chat_history' = chat_history \o
                        <<UserMessage(user_input), AiResponse(r.value.data)>>
                 /\ branch' = "success"
            ELSE /\ chat_history' = chat_history \o
                        <<UserMessage(user_input), ErrorResponseEntry(r.value)>>
                 /\ branch' = "failure"
    /\ UNCHANGED <<clientVars, askVars, uploadVars, normVars>>

\* lines 595-598: the Clear Chat button
ClearChat ==
    /\ chat_history' = <<>>
    /\ UNCHANGED <<branch, clientVars, askVars, uploadVars, normVars>>

ChatNext ==
    \/ \E user_input \in UserInputs, os \in [1..DefaultMaxRetries -> ChatOutcomes] :
          Send(user_input, os)
    \/ ClearChat

ChatSpec == Init /\ [][ChatNext]_vars

-----------------------------------------------------------------------------
(* What the properties below read off a call                               *)

Invocations == Len(SelectSeq(trace, LAMBDA e : e.ev = "invoke"))
Sleeps == Len(SelectSeq(trace, LAMBDA e : e.ev = "sleep"))

Configured == lambda_client = "client"

Max(a, b) == IF a >= b THEN a ELSE b

\* o is a response that decodes to a mapping whose statusCode is not 200
IsErrorResponse(o) ==
    /\ o.kind = "payload"
    /\ json_loads(o.text).ok
    /\ LET rb == json_loads(o.text).value IN
       /\ IsDict(rb)
       /\ ~(HasKey(rb, "statusCode") /\ rb.v["statusCode"] = PyInt(200))
       /\ IsDict(DictGet(rb, "body", EmptyDict))
       /\ IsStr(DictGet(DictGet(rb, "body", EmptyDict), "error", PyStr("Unknown error")))

\* the error message of such a response
ResponseError(o) ==
    DictGet(DictGet(json_loads(o.text).value, "body", EmptyDict), "error",
            PyStr("Unknown error")).v

\* o is a response that decodes to a mapping with statusCode 200 and a body
IsOkResponse(o) ==
    /\ o.kind = "payload"
    /\ json_loads(o.text).ok
    /\ LET rb == json_loads(o.text).value IN
       /\ IsDict(rb)
       /\ HasKey(rb, "statusCode") /\ rb.v["statusCode"] = PyInt(200)
       /\ HasKey(rb, "body")

OkBody(o) == json_loads(o.text).value.v["body"]

IsClientError(o) == o.kind = "raise" /\ o.exc.cls = "ClientError"

HasRetryableWord(text) ==
    \/ Contains(Lower(text), "timeout")
    \/ Contains(Lower(text), "throttle")
    \/ Contains(Lower(text), "temporary")

\* o reports an error whose text contains timeout, throttle or temporary
ReportsRetryable(o) ==
    \/ o.kind = "raise" /\ HasRetryableWord(o.exc.text)
    \/ IsErrorResponse(o) /\ HasRetryableWord(ResponseError(o))

HasCredentialMarker(o) ==
    /\ IsClientError(o)
    /\ \/ Contains(o.exc.text, "UnrecognizedClientException")
       \/ Contains(o.exc.text, "AccessDeniedException")

\* every invocation of the call so far reported a retryable error
AlwaysRetryable ==
    \A i \in DOMAIN trace : trace[i].ev = "invoke" => ReportsRetryable(trace[i].outcome)

NoCredentialMarker ==
    \A i \in DOMAIN trace : trace[i].ev = "invoke" => ~HasCredentialMarker(trace[i].outcome)

LastOutcome == trace[Len(trace)].outcome

\* data is {"response": <a text>, "snippets": []}
IsApology(data) ==
    /\ IsDict(data)
    /\ DOMAIN data.v = {"response", "snippets"}
    /\ IsStr(data.v["response"])
    /\ data.v["snippets"] = PyList(<<>>)

\* data holds a response text: a text itself, or a mapping with a text under "response"
CarriesResponseText(data) ==
    \/ IsStr(data)
    \/ IsDict(data) /\ HasKey(data, "response") /\ IsStr(data.v["response"])

-----------------------------------------------------------------------------
(* C1 as stated: send_chat_message never raises, and every result has      *)
(* success = true and data that carries a response text.                   *)
C1_AlwaysResponseText ==
    /\ pc # "raised"
    /\ pc = "returned" => result.success = TRUE /\ CarriesResponseText(result.data)

(* C1, amended: send_chat_message never raises and never returns           *)
(* success = false; its data is an apology {response text, no snippets}    *)
(* or, after a 200 response with a body, that body unchanged, whatever     *)
(* the body holds.                                                         *)
C1_AlwaysSuccess ==
    /\ pc # "raised"
    /\ pc = "returned" =>
          /\ result.success = TRUE
          /\ \/ IsApology(result.data)
             \/ /\ trace # <<>>
                /\ IsOkResponse(LastOutcome)
                /\ result.data = OkBody(LastOutcome)

\* a call returned after two failed attempts and an unexpected exception
C1_Witness ==
    /\ pc = "returned"
    /\ Invocations = 3
    /\ LastOutcome.kind = "raise"
    /\ LastOutcome.exc.cls = "EndpointConnectionError"
    /\ result.success = TRUE

-----------------------------------------------------------------------------
(* C2 as stated: with a client, max_retries >= 1 and a retryable error     *)
(* (text containing timeout, throttle or temporary) on every attempt, the  *)
(* call makes exactly max_retries invocations, never one more.             *)
C2_ExactlyMaxRetriesAsStated ==
    (Configured /\ max_retries >= 1 /\ AlwaysRetryable) =>
        /\ Invocations <= max_retries
        /\ pc = "returned" => Invocations = max_retries

(* C2, amended: the same, for retryable errors that are not a ClientError  *)
(* carrying UnrecognizedClientException or AccessDeniedException (such an  *)
(* error ends the call at once even when its text has a retryable word).   *)
C2_ExactlyMaxRetries ==
    (Configured /\ max_retries >= 1 /\ AlwaysRetryable /\ NoCredentialMarker) =>
        /\ Invocations <= max_retries
        /\ pc = "returned" => Invocations = max_retries

\* three attempts, each a retryable error, and the call has returned
C2_Witness ==
    /\ pc = "returned"
    /\ Configured
    /\ max_retries = 3
    /\ AlwaysRetryable /\ NoCredentialMarker
    /\ Invocations = 3
    /\ \E i \in DOMAIN trace : trace[i].ev = "invoke" /\ IsClientError(trace[i].outcome)

-----------------------------------------------------------------------------
(* C3 as stated: with a client, max_retries >= 1 and a retryable error on  *)
(* every attempt, the call returns the fixed exhaustion apology.           *)
C3_ExhaustionApologyAsStated ==
    (pc = "returned" /\ Configured /\ max_retries >= 1 /\ AlwaysRetryable) =>
        result = Success(Apology(ExhaustedText))

\* the apology the code returns for the error of outcome o on the last attempt
LastErrorApology(o) ==
    IF IsErrorResponse(o)
    THEN Apology("I encountered an error: " \o ResponseError(o)
                 \o ". Please try again or rephrase your question.")
    ELSE IF ~IsClientError(o)
    THEN Apology("An unexpected error occurred: " \o o.exc.text)
    ELSE IF Contains(o.exc.text, "UnrecognizedClientException")
    THEN Apology(InvalidCredentialsText)
    ELSE IF Contains(o.exc.text, "AccessDeniedException")
    THEN Apology(AccessDeniedText)
    ELSE Apology("AWS service error: " \o o.exc.text)

(* C3, amended: in that case the call returns, with empty snippets, the    *)
(* apology for the last attempt's error ("I encountered an error: <msg>"   *)
(* for an error response, "AWS service error: <text>" for a ClientError,   *)
(* or the fixed credentials / access-denied apology when its text carries  *)
(* that marker, "An unexpected error occurred: <text>" for any other       *)
(* exception), and never the fixed exhaustion apology.                     *)
C3_LastErrorApology ==
    (pc = "returned" /\ Configured /\ max_retries >= 1 /\ AlwaysRetryable) =>
        /\ result = Success(LastErrorApology(LastOutcome))
        /\ result # Success(Apology(ExhaustedText))

\* three retryable error responses, and the call has returned
C3_Witness ==
    /\ pc = "returned"
    /\ Configured
    /\ max_retries = 3
    /\ Invocations = 3
    /\ AlwaysRetryable
    /\ IsErrorResponse(LastOutcome)

-----------------------------------------------------------------------------
\* the fixed apology for a ClientError text with a credential marker
MarkerApology(text) ==
    IF Contains(text, "UnrecognizedClientException")
    THEN Apology(InvalidCredentialsText)
    ELSE Apology(AccessDeniedText)

(* C4: an attempt that raises a ClientError whose text contains            *)
(* UnrecognizedClientException or AccessDeniedException is the call's last *)
(* event: the call returns there with the matching fixed apology, with no  *)
(* sleep and no invocation after it (one invocation if it was the first).  *)
C4_CredentialErrorReturnsAtOnce ==
    \A i \in DOMAIN trace :
        (trace[i].ev = "invoke" /\ HasCredentialMarker(trace[i].outcome)) =>
            /\ i = Len(trace)
            /\ pc = "returned"
            /\ result = Success(MarkerApology(trace[i].outcome.exc.text))
            /\ i = 1 => Invocations = 1

\* AccessDeniedException on the first of three allowed attempts
C4_Witness ==
    /\ pc = "returned"
    /\ max_retries = 3
    /\ Invocations = 1
    /\ Sleeps = 0
    /\ LastOutcome = Raised("ClientError", CEAccessDeniedTemporary)
    /\ result = Success(Apology(AccessDeniedText))

-----------------------------------------------------------------------------
(* C6: without a client the call returns the not-connected apology with    *)
(* success = true, no invocation and no sleep, whatever max_retries is.    *)
C6_NotConnected ==
    ~Configured =>
        /\ pc # "loop"
        /\ trace = <<>>
        /\ pc = "returned" => result = Success(Apology(NotConnectedText))

\* no client, max_retries = -1, returned
C6_Witness ==
    /\ ~Configured
    /\ pc = "returned"
    /\ max_retries < 0
    /\ result = Success(Apology(NotConnectedText))

-----------------------------------------------------------------------------
(* C7: a call makes at most max(max_retries, 0) invocations and at most    *)
(* max(max_retries - 1, 0) sleeps, and once in the loop it returns.        *)
C7_Terminates ==
    /\ [](Invocations <= Max(max_retries, 0) /\ Sleeps <= Max(max_retries - 1, 0))
    /\ (pc = "loop") ~> (pc = "returned")

\* a call that used its whole budget of invocations and sleeps
C7_Witness ==
    /\ pc = "returned"
    /\ max_retries = 3
    /\ Invocations = 3
    /\ Sleeps = 2

-----------------------------------------------------------------------------
(* C5: upload_file_to_s3 returns a result record for every outcome of the  *)
(* storage write, whatever exception the write raises; no failure of the   *)
(* write propagates as an exception.                                       *)
C5_UploadAlwaysReturns ==
    \A i \in DOMAIN calls :
        /\ calls[i].outcome.k = "return"
        /\ calls[i].outcome.value.success \in BOOLEAN

-----------------------------------------------------------------------------
Succeeded(c) == c.outcome.k = "return" /\ c.outcome.value.success

(* C8: every successful upload returns the key uploads/<uuid>_<filename>   *)
(* for its own filename, with that filename and the configured bucket, and *)
(* two successful uploads that drew distinct uuids have distinct keys,     *)
(* also when their filenames are the same.                                 *)
C8_DistinctKeys ==
    /\ \A i \in DOMAIN calls :
          Succeeded(calls[i]) =>
              LET ref == calls[i].outcome.value.data IN
              /\ ref.s3_key = "uploads/" \o calls[i].uuid \o "_" \o calls[i].filename
              /\ ref.filename = calls[i].filename
              /\ ref.bucket = S3_BUCKET
              /\ ref.s3_key \in bucket
    /\ \A i, j \in DOMAIN calls :
          (i # j /\ Succeeded(calls[i]) /\ Succeeded(calls[j])
                 /\ calls[i].uuid # calls[j].uuid) =>
              calls[i].outcome.value.data.s3_key # calls[j].outcome.value.data.s3_key

\* two successful uploads of policy.pdf under two uuids
C8_Witness ==
    /\ Len(calls) >= 2
    /\ Succeeded(calls[1]) /\ Succeeded(calls[2])
    /\ calls[1].filename = "policy.pdf" /\ calls[2].filename = "policy.pdf"
    /\ calls[1].uuid # calls[2].uuid
    /\ Cardinality(bucket) = 2

-----------------------------------------------------------------------------
\* the text looks like structured data
LooksStructured(text) == StartsWith(LStrip(text), "{")

\* a mapping whose fields, where present, have the documented types
WellTyped(d) ==
    /\ IsDict(d)
    /\ HasKey(d, "response") => IsStr(d.v["response"])
    /\ HasKey(d, "snippets") =>
          /\ d.v["snippets"].t = "list"
          /\ \A i \in DOMAIN d.v["snippets"].v :
                LET sn == d.v["snippets"].v[i] IN
                /\ IsDict(sn)
                /\ \A k \in DOMAIN sn.v : IsStr(sn.v[k])

MalformedText(d) == IsStr(d) /\ LooksStructured(d.v) /\ ~json_loads(d.v).ok

\* the five kinds of payload C9 names
NamedPayload(d) ==
    \/ IsStr(d) /\ LooksStructured(d.v) /\ json_loads(d.v).ok /\ WellTyped(json_loads(d.v).value)
    \/ MalformedText(d)
    \/ IsStr(d) /\ ~LooksStructured(d.v)
    \/ WellTyped(d)

\* every snippet shown has a source and a text
WellFormed(r) ==
    /\ r.error = ""
    /\ \A i \in DOMAIN r.snippets : DOMAIN r.snippets[i] = {"source", "text"}

(* C9: for a JSON-looking text of a mapping, a malformed '{'-prefixed      *)
(* text, a plain text, and a mapping with missing or with full fields, the *)
(* handling of the payload ends in a well-formed {answer, snippets} with   *)
(* no exception; a '{'-prefixed text that fails to parse is itself the     *)
(* answer, with no snippets; the full mapping keeps its answer and         *)
(* snippets.                                                               *)
C9_NormalizeTotal ==
    /\ (stage \in {"stored", "shown"} /\ NamedPayload(result_data)) =>
          /\ IsDict(ai_response.content)
          /\ MalformedText(result_data) =>
                ai_response.content =
                    PyDict([response |-> result_data, snippets |-> PyList(<<>>)])
    /\ (stage = "shown" /\ NamedPayload(result_data)) =>
          /\ WellFormed(rendered)
          /\ MalformedText(result_data) =>
                rendered = Shown(result_data.v, <<>>, "")
          /\ result_data \in {BodyFull, PyStr(TextBodyFull)} =>
                rendered = Shown("Wear gloves.",
                                 <<[source |-> "manual.pdf", text |-> "Gloves required."]>>,
                                 "")

\* a malformed '{'-prefixed text behind leading blanks, shown as the answer
C9_Witness ==
    /\ stage = "shown"
    /\ result_data = PyStr(TextMalformedIndented)
    /\ rendered.answer = TextMalformedIndented
    /\ rendered.snippets = <<>>

-----------------------------------------------------------------------------
(* C10: the answer shown is the sentinel "No response received" when the   *)
(* mapping has no response field or a null one, and the snippets shown are *)
(* a sequence of {source, text} entries whatever the snippets field held.  *)
C10_AnswerAndSnippetsAlwaysWellFormed ==
    stage = "shown" =>
        /\ (IsDict(result_data)
              /\ (~HasKey(result_data, "response") \/ result_data.v["response"] = PyNone)) =>
                 rendered.answer = NoResponseText
        /\ WellFormed(rendered)

-----------------------------------------------------------------------------
\* the attempt (0, 1, ...) that made the invocation at trace[i]
AttemptAt(i) == Len(SelectSeq(SubSeq(trace, 1, i - 1), LAMBDA e : e.ev = "invoke"))

InvokeAt(i) == i \in DOMAIN trace /\ trace[i].ev = "invoke"
SleepAt(i) == i \in DOMAIN trace /\ trace[i].ev = "sleep"

\* the waits of the call's sleeps, in order
Waits ==
    LET sl == SelectSeq(trace, LAMBDA e : e.ev = "sleep")
    IN [k \in DOMAIN sl |-> sl[k].wait]

-----------------------------------------------------------------------------
\* o is a response whose payload is not valid JSON
IsMalformed(o) == o.kind = "payload" /\ ~json_loads(o.text).ok

(* C12 as stated: after a payload that is not valid JSON, with attempts    *)
(* remaining, the call backs off for wait(attempt) and retries.            *)
C12_MalformedRetriedAsStated ==
    \A i \in DOMAIN trace :
        (InvokeAt(i) /\ IsMalformed(trace[i].outcome) /\ AttemptAt(i) < max_retries - 1) =>
            /\ SleepAt(i + 1)
            /\ trace[i + 1].wait = 10 * (2 ^ AttemptAt(i)) + 5

(* C12, amended: a payload that is not valid JSON ends the call at that    *)
(* attempt, attempts remaining or not: the call returns the fixed apology  *)
(* "Received invalid response format. Please try again." with empty        *)
(* snippets, with no backoff and no retry.                                 *)
C12_MalformedReturnsAtOnce ==
    \A i \in DOMAIN trace :
        (InvokeAt(i) /\ IsMalformed(trace[i].outcome)) =>
            /\ i = Len(trace)
            /\ pc = "returned"
            /\ result = Success(Apology(InvalidFormatText))

\* not JSON on the first of three attempts
C12_Witness ==
    /\ pc = "returned"
    /\ max_retries = 3
    /\ Invocations = 1
    /\ IsMalformed(LastOutcome)
    /\ Sleeps = 0

-----------------------------------------------------------------------------
\* o raised an exception with no credential marker and no retryable word
IsPlainException(o) ==
    /\ o.kind = "raise"
    /\ ~HasCredentialMarker(o)
    /\ ~HasRetryableWord(o.exc.text)

(* C13 as stated: after an exception that is neither an invalid-           *)
(* credentials nor an access-denied error and has no retryable word, the   *)
(* call backs off and retries if attempts remain, and returns an apology   *)
(* with the raw text only on the last attempt.                             *)
C13_PlainErrorRetriedAsStated ==
    \A i \in DOMAIN trace :
        (InvokeAt(i) /\ IsPlainException(trace[i].outcome)) =>
            IF AttemptAt(i) < max_retries - 1
            THEN SleepAt(i + 1)
            ELSE /\ i = Len(trace)
                 /\ pc = "returned"

(* C13, amended: a ClientError of that kind ends the call at that attempt, *)
(* attempts remaining or not, with "AWS service error: <text>" and empty   *)
(* snippets; an exception that is not a ClientError is what is backed off  *)
(* and retried while attempts remain, and on the last attempt returns      *)
(* "An unexpected error occurred: <text>".                                 *)
C13_PlainClientErrorReturnsAtOnce ==
    \A i \in DOMAIN trace :
        (InvokeAt(i) /\ IsPlainException(trace[i].outcome)) =>
            LET o == trace[i].outcome IN
            IF IsClientError(o)
            THEN /\ i = Len(trace)
                 /\ pc = "returned"
                 /\ result = Success(Apology("AWS service error: " \o o.exc.text))
            ELSE IF AttemptAt(i) < max_retries - 1
            THEN /\ SleepAt(i + 1)
                 /\ trace[i + 1].wait = 10 * (2 ^ AttemptAt(i)) + 5
            ELSE /\ i = Len(trace)
                 /\ pc = "returned"
                 /\ result = Success(Apology("An unexpected error occurred: " \o o.exc.text))

\* ResourceNotFoundException on the first of three attempts
C13_Witness ==
    /\ pc = "returned"
    /\ max_retries = 3
    /\ Invocations = 1
    /\ LastOutcome = Raised("ClientError", CENotFound)
    /\ result = Success(Apology("AWS service error: " \o CENotFound))

-----------------------------------------------------------------------------
ErrorApologyText(msg) ==
    "I encountered an error: " \o msg \o ". Please try again or rephrase your question."

(* C14: after a response that is not a 200 at attempt a (body a mapping or *)
(* absent, its error a text or absent): when the lowercased error message  *)
(* contains timeout, throttle or temporary and a < max_retries - 1, the    *)
(* call sleeps wait(a) and goes on to attempt a + 1; otherwise it returns  *)
(* at attempt a, with no further invocation, success with the text         *)
(* embedding the message ("Unknown error" when the body has no error       *)
(* field) and empty snippets.                                              *)
C14_ErrorResponse ==
    \A i \in DOMAIN trace :
        (InvokeAt(i) /\ IsErrorResponse(trace[i].outcome)) =>
            LET o == trace[i].outcome
                a == AttemptAt(i)
            IN /\ IF HasRetryableWord(ResponseError(o)) /\ a < max_retries - 1
                  THEN /\ SleepAt(i + 1)
                       /\ trace[i + 1].wait = 10 * (2 ^ a) + 5
                       /\ attempt >= a + 1
                       /\ Len(trace) > i + 1 => InvokeAt(i + 2)
                  ELSE /\ i = Len(trace)
                       /\ pc = "returned"
                       /\ attempt = a
                       /\ result = Success(Apology(ErrorApologyText(ResponseError(o))))
               /\ o.text \in {PayloadErrNoError, PayloadNoStatus} =>
                      ResponseError(o) = "Unknown error"
               /\ o.text = PayloadErrTimeout => ResponseError(o) = "Request Timeout"

\* a timeout response retried at attempt 0, then a response without an
\* error field returned at attempt 1 of three
C14_Witness ==
    /\ pc = "returned"
    /\ max_retries = 3
    /\ Len(trace) = 3
    /\ trace[1] = Invoked(Payload(PayloadErrTimeout))
    /\ trace[2] = Slept(15)
    /\ trace[3] = Invoked(Payload(PayloadErrNoError))
    /\ result = Success(Apology(ErrorApologyText("Unknown error")))

-----------------------------------------------------------------------------
(* C15: the first attempt answered with statusCode 200 and a body ends the *)
(* call: success with data equal to that body unchanged, no invocation or  *)
(* sleep after it, and as many invocations as retried attempts plus one.   *)
C15_OkResponseEndsCall ==
    \A i \in DOMAIN trace :
        (InvokeAt(i) /\ IsOkResponse(trace[i].outcome)) =>
            /\ i = Len(trace)
            /\ pc = "returned"
            /\ result = Success(OkBody(trace[i].outcome))
            /\ trace[i].outcome.text = PayloadOkFull => result.data = BodyFull
            /\ Invocations = Sleeps + 1
            /\ Invocations = AttemptAt(i) + 1

\* two retried attempts, then the full body on the third
C15_Witness ==
    /\ pc = "returned"
    /\ Invocations = 3
    /\ Sleeps = 2
    /\ LastOutcome = Payload(PayloadOkFull)
    /\ result.data.v["response"] = PyStr("Wear gloves.")
    /\ result.data.v["snippets"] = PyList(<<SnippetFull>>)

-----------------------------------------------------------------------------
(* C19 as stated: every sleep is followed by another invocation, and in    *)
(* any run the sleeps are strictly fewer than the invocations.             *)
C19_FewerSleepsAsStated ==
    pc = "returned" =>
        /\ \A i \in DOMAIN trace : SleepAt(i) => InvokeAt(i + 1)
        /\ Sleeps < Invocations

(* C19, amended: the call never sleeps immediately before returning: every *)
(* sleep is followed by another invocation in the same call and no sleep   *)
(* follows the attempt max_retries - 1; a call that makes an invocation    *)
(* has strictly fewer sleeps than invocations, and a call that makes none  *)
(* (no client, or max_retries <= 0) has no sleep either.                   *)
C19_NoSleepBeforeReturn ==
    /\ \A i \in DOMAIN trace :
          SleepAt(i) =>
              /\ AttemptAt(i) < max_retries
              /\ IF i < Len(trace)
                 THEN InvokeAt(i + 1)
                 ELSE pc = "loop" /\ attempt < max_retries
    /\ pc = "returned" =>
          /\ trace # <<>> => InvokeAt(Len(trace))
          /\ Invocations > 0 => Sleeps < Invocations
          /\ Invocations = 0 => Sleeps = 0

\* every attempt retried but the last, which returns without a sleep
C19_Witness ==
    /\ pc = "returned"
    /\ max_retries = 3
    /\ Invocations = 3
    /\ Sleeps = 2
    /\ ReportsRetryable(LastOutcome)

-----------------------------------------------------------------------------
-----------------------------------------------------------------------------
-----------------------------------------------------------------------------
BucketNotFoundText == "S3 bucket 'cacheme-documents' not found. Please check your configuration."

(* C17: a write that fails with a ClientError gets exactly one of three    *)
(* messages: access denied when the text contains AccessDenied; bucket not *)
(* found, naming the configured bucket, when it contains NoSuchBucket and  *)
(* not AccessDenied; "S3 upload failed: <text>" otherwise; always with     *)
(* success false and no storage reference.                                 *)
C17_UploadErrorClassified ==
    \A i \in DOMAIN calls :
        (calls[i].wrote /\ IsClientError(calls[i].write)) =>
            LET t == calls[i].write.exc.text
                r == calls[i].outcome
            IN /\ r.k = "return"
               /\ DOMAIN r.value = {"success", "error"}
               /\ r.value.success = FALSE
               /\ r.value.error =
                      IF Contains(t, "AccessDenied") THEN S3AccessDeniedText
                      ELSE IF Contains(t, "NoSuchBucket") THEN BucketNotFoundText
                      ELSE "S3 upload failed: " \o t
               /\ Cardinality({m \in {S3AccessDeniedText, BucketNotFoundText,
                                      "S3 upload failed: " \o t} : r.value.error = m}) = 1
               /\ Len(uploaded_files) < Len(calls)

\* a text with both markers gets the access-denied message, one with
\* NoSuchBucket alone the bucket message
C17_Witness ==
    /\ Len(calls) = 2
    /\ calls[1].write = Raised("ClientError", S3DeniedNoSuchBucket)
    /\ calls[1].outcome = Failure(S3AccessDeniedText)
    /\ calls[2].write = Raised("ClientError", S3NoSuchBucket)
    /\ calls[2].outcome = Failure(BucketNotFoundText)

-----------------------------------------------------------------------------
(* C18: a text payload that does not start with '{' once its leading       *)
(* blanks are stripped, a valid JSON number, null, quoted text or array    *)
(* included, is shown as the answer verbatim, with no snippets.            *)
C18_PlainTextVerbatim ==
    (stage = "shown" /\ IsStr(result_data) /\ ~StartsWith(LStrip(result_data.v), "{")) =>
        /\ rendered.answer = result_data.v
        /\ rendered.snippets = <<>>
        /\ rendered.error = ""

-----------------------------------------------------------------------------
\* o decodes to a mapping that is a 200 without a body, or is not a 200 and
\* has a body that is not a mapping or an error that is not a text
IsMisshapen(o) ==
    /\ o.kind = "payload"
    /\ json_loads(o.text).ok
    /\ LET rb == json_loads(o.text).value IN
       /\ IsDict(rb)
       /\ IF HasKey(rb, "statusCode") /\ rb.v["statusCode"] = PyInt(200)
          THEN ~HasKey(rb, "body")
          ELSE \/ ~IsDict(DictGet(rb, "body", EmptyDict))
               \/ ~IsStr(DictGet(DictGet(rb, "body", EmptyDict), "error", PyStr("Unknown error")))

\* str(e) of the exception the three misshapen payloads of the model raise
MisshapenText(o) ==
    CASE o.text = PayloadOkNoBody -> "'body'"
      [] o.text = PayloadErrTextBody -> "'str' object has no attribute 'get'"
      [] o.text = PayloadErrNullError -> "'NoneType' object has no attribute 'lower'"

(* C21: a 200 without a body field is never returned as the answer: it is  *)
(* handled as an unexpected exception, retried after wait(attempt) while    *)
(* attempts remain and, on the last attempt, answered with "An unexpected   *)
(* error occurred: <text>" and empty snippets; so is a response that is not *)
(* a 200 and whose body is not a mapping or whose error is not a text.      *)
C21_MisshapenIsUnexpected ==
    \A i \in DOMAIN trace :
        (InvokeAt(i) /\ IsMisshapen(trace[i].outcome)) =>
            LET o == trace[i].outcome
                a == AttemptAt(i)
            IN /\ o.text \in {PayloadOkNoBody, PayloadErrTextBody, PayloadErrNullError}
               /\ IF a < max_retries - 1
                  THEN /\ SleepAt(i + 1)
                       /\ trace[i + 1].wait = 10 * (2 ^ a) + 5
                  ELSE /\ i = Len(trace)
                       /\ pc = "returned"
                       /\ result = Success(Apology("An unexpected error occurred: "
                                                   \o MisshapenText(o)))

\* a text body retried at attempt 0, a null error at attempt 1, and a 200
\* without body on the last of three attempts
C21_Witness ==
    /\ pc = "returned"
    /\ max_retries = 3
    /\ trace = <<Invoked(Payload(PayloadErrTextBody)), Slept(15),
                 Invoked(Payload(PayloadErrNullError)), Slept(25),
                 Invoked(Payload(PayloadOkNoBody))>>
    /\ result = Success(Apology("An unexpected error occurred: 'body'"))

-----------------------------------------------------------------------------
\* the call ended at trace[i] with the apology text
ReturnedAt(i, text) ==
    /\ i = Len(trace)
    /\ pc = "returned"
    /\ result = Success(Apology(text))

(* C22: a ClientError is classified in a fixed order:                       *)
(* UnrecognizedClientException, then AccessDeniedException, then the        *)
(* retryable words. A text with one of the two markers is never retried,    *)
(* even when it also contains timeout, throttle or temporary, and a text    *)
(* with both markers gets the invalid-credentials apology.                  *)
C22_ClientErrorPrecedence ==
    \A i \in DOMAIN trace :
        (InvokeAt(i) /\ IsClientError(trace[i].outcome)) =>
            LET t == trace[i].outcome.exc.text
                unrecognized == Contains(t, "UnrecognizedClientException")
                denied == Contains(t, "AccessDeniedException")
            IN /\ unrecognized => ReturnedAt(i, InvalidCredentialsText)
               /\ (denied /\ ~unrecognized) => ReturnedAt(i, AccessDeniedText)
               /\ (unrecognized \/ denied) => ~SleepAt(i + 1)
               /\ (~unrecognized /\ ~denied) =>
                      IF HasRetryableWord(t) /\ AttemptAt(i) < max_retries - 1
                      THEN SleepAt(i + 1)
                      ELSE ReturnedAt(i, "AWS service error: " \o t)

\* a retried timeout, then a text with both markers and a retryable word,
\* one attempt still remaining
C22_Witness ==
    /\ max_retries = 3
    /\ trace = <<Invoked(Raised("ClientError", CETimeout)), Slept(15),
                 Invoked(Raised("ClientError", CEBothMarkers))>>
    /\ HasRetryableWord(CEBothMarkers)
    /\ Contains(CEBothMarkers, "AccessDeniedException")
    /\ ReturnedAt(3, InvalidCredentialsText)

-----------------------------------------------------------------------------
\* h is a sequence of (user entry, AI entry) pairs, the empty one included
IsPairs(h) ==
    /\ Len(h) % 2 = 0
    /\ \A k \in DOMAIN h : h[k].type = IF k % 2 = 1 THEN "user" ELSE "ai"

(* C23: the chat history is always empty or a sequence of (user entry, AI   *)
(* entry) pairs in that order; a Send with non-blank input appends one user *)
(* entry then one AI entry to it, Clear Chat empties it, and the branch for *)
(* a result with success false is never taken.                              *)
C23_HistoryIsPairs ==
    /\ [](IsPairs(chat_history) /\ branch \in {"none", "success"})
    /\ [][\/ chat_history' = <<>>
          \/ /\ Len(chat_history') = Len(chat_history) + 2
             /\ SubSeq(chat_history', 1, Len(chat_history)) = chat_history
             /\ chat_history'[Len(chat_history) + 1].type = "user"
             /\ LStrip(chat_history'[Len(chat_history) + 1].content.v) # ""
             /\ chat_history'[Len(chat_history) + 2].type = "ai"
             /\ IsDict(chat_history'[Len(chat_history) + 2].content)
          \/ UNCHANGED chat_history]_vars

\* two Sends: one answered with a null body, one ended by a credential error
C23_Witness ==
    /\ Len(chat_history) = 4
    /\ chat_history[1] = UserMessage("What is the safety policy?")
    /\ chat_history[2].content = PyDict([response |-> PyStr("None"), snippets |-> PyList(<<>>)])
    /\ chat_history[3].type = "user"
    /\ chat_history[4].content = Apology(InvalidCredentialsText)
    /\ branch = "success"

====
